---------------------------- MODULE Spec2Model ----------------------------
(***************************************************************************)
(* A model of go.geo's Path (src/path.go): the mutation and query surface, *)
(* the Douglas-Peucker simplification (Reduce / workerReduce) and the      *)
(* polyline codec (Encode / Decode).                                       *)
(*                                                                         *)
(* A Point is <<x, y>> (x = Lng, y = Lat, as Point{lng, lat} in Decode).   *)
(* Coordinates are float64 in the code; here a coordinate is the integer   *)
(* numerator c of the real number c / Denom, and the arithmetic is exact.  *)
(* Go slices are 0-indexed: the model keeps Go's indices and reads         *)
(* points[i + 1].  A pointer is a sequence of length <= 1: <<>> is nil.    *)
(* Go's int is 64 bits wide; every integer of the model stays far below    *)
(* that width, so no operation wraps.                                      *)
(***************************************************************************)
EXTENDS Integers, Sequences, FiniteSets, TLC

VARIABLES
    points,     \* p.points of the path under observation
    old,        \* p.points before the last operation
    op,         \* the last operation called
    index,      \* its index argument
    argPt,      \* its *Point argument (<<>> is nil)
    retPt,      \* the *Point it returned (<<>> is nil)
    retBound,   \* the *Bound it returned: <<sw, ne>>
    threshold,  \* Reduce's threshold
    mask,       \* Reduce's keep-mask when workerReduce returned
    str,        \* Encode's result / Decode's argument, a sequence of bytes
    factor,     \* the factor given to Encode / Decode
    decoded,    \* the points of the path Decode returned
    fault       \* "none", or the panic / fatal error that ended the call

vars == <<points, old, op, index, argPt, retPt, retBound, threshold, mask,
          str, factor, decoded, fault>>

----------------------------------------------------------------------------
(* Bounds of the model *)

MaxLen == 4
MaxReduceLen == 4
MaxCodecLen == 2
MaxStrLen == 2

\* A coordinate c of the model is the real number c / Denom.
Denom == 2 * 5

\* Factors given to Encode / Decode; each divides Denom, so that
\* float64(n) / f is a coordinate of the model.
Factors == {1, 5}

\* The points the mutation operations draw from: the corners of a
\* 4 x 3 rectangle.
PathPoints == {<<0, 0>>, <<4, 0>>, <<4, 3>>, <<0, 3>>}

\* The points of the paths Reduce is called on.
ReducePoints == {<<x, y>> : x \in 0..2, y \in 0..1}
Thresholds == {-1, 0, 1, 2}

\* The points of the paths Encode is called on: 1.9, -1.9, 0.4, ...
CodecPoints == {<<0, 0>>, <<19, -19>>, <<-19, 4>>, <<-4, 19>>}

\* The bytes of the strings Decode is called on: '?', '@', 'A', '`'.
Alphabet == {63, 64, 65, 96}

SeqsUpTo(S, n) == UNION {[1..k -> S] : k \in 0..n}

NoFault == "none"
PanicRange == "panic: geo: index out of range"
RuntimeRange == "runtime error: index out of range"
NilDeref == "runtime error: nil pointer dereference"
StackOverflow == "fatal error: stack overflow"

Min2(a, b) == IF a < b THEN a ELSE b
Max2(a, b) == IF a > b THEN a ELSE b

X(pt) == pt[1]
Y(pt) == pt[2]
Lng(pt) == pt[1]
Lat(pt) == pt[2]

Length(pts) == Len(pts)

----------------------------------------------------------------------------
(* What an operation leaves at its neutral value *)

NoArgs == index' = 0 /\ argPt' = <<>>
NoRets == retPt' = <<>> /\ retBound' = <<>>
NoReduce == threshold' = 0 /\ mask' = <<>>
NoCodec == str' = <<>> /\ factor' = 1 /\ decoded' = <<>>

----------------------------------------------------------------------------
(* Path: mutation and query surface *)

\* NewPath
InitPath ==
    /\ points = <<>>
    /\ old = <<>>
    /\ op = "NewPath"
    /\ index = 0
    /\ argPt = <<>>
    /\ retPt = <<>>
    /\ retBound = <<>>
    /\ threshold = 0
    /\ mask = <<>>
    /\ str = <<>>
    /\ factor = 1
    /\ decoded = <<>>
    /\ fault = NoFault

\* Push dereferences its argument: *point.
Push(ptr) ==
    /\ fault = NoFault
    /\ Len(points) < MaxLen
    /\ op' = "Push"
    /\ old' = points
    /\ index' = 0
    /\ argPt' = ptr
    /\ IF ptr = <<>>
         THEN /\ fault' = NilDeref
              /\ points' = points
         ELSE /\ fault' = NoFault
              /\ points' = Append(points, ptr[1])
    /\ NoRets /\ NoReduce /\ NoCodec

Pop ==
    /\ fault = NoFault
    /\ op' = "Pop"
    /\ old' = points
    /\ NoArgs
    /\ fault' = NoFault
    /\ IF Len(points) = 0
         THEN /\ retPt' = <<>>
              /\ points' = points
         ELSE /\ retPt' = <<points[Len(points)]>>
              /\ points' = SubSeq(points, 1, Len(points) - 1)
    /\ retBound' = <<>>
    /\ NoReduce /\ NoCodec

\* The only check is i >= len(p.points); &p.points[i] is bounds-checked
\* by the runtime.
GetAt(i) ==
    /\ fault = NoFault
    /\ op' = "GetAt"
    /\ old' = points
    /\ index' = i
    /\ argPt' = <<>>
    /\ points' = points
    /\ IF i >= Len(points)
         THEN /\ retPt' = <<>>
              /\ fault' = NoFault
         ELSE IF i < 0
                THEN /\ retPt' = <<>>
                     /\ fault' = RuntimeRange
                ELSE /\ retPt' = <<points[i + 1]>>
                     /\ fault' = NoFault
    /\ retBound' = <<>>
    /\ NoReduce /\ NoCodec

SetOutOfRange(i, n) == i >= n \/ i < 0

SetAt(i, pt) ==
    /\ fault = NoFault
    /\ op' = "SetAt"
    /\ old' = points
    /\ index' = i
    /\ argPt' = <<pt>>
    /\ IF SetOutOfRange(i, Len(points))
         THEN /\ fault' = PanicRange
              /\ points' = points
         ELSE /\ fault' = NoFault
              /\ points' = [points EXCEPT ![i + 1] = pt]
    /\ NoRets /\ NoReduce /\ NoCodec

\* index >= len(p.points): the end of the path is refused too
InsertOutOfRangeStrict(i, n) == i >= n \/ i < 0

InsertOutOfRange(i, n) == i > n \/ i < 0

\* append(p.points, Point{}); copy(p.points[index+1:], p.points[index:]);
\* p.points[index] = *point
InsertShift(pts, i, pt) ==
    [k \in 1..(Len(pts) + 1) |->
        IF k < i + 1 THEN pts[k]
        ELSE IF k = i + 1 THEN pt
        ELSE pts[k - 1]]

InsertAt(i, pt) ==
    /\ fault = NoFault
    /\ op' = "InsertAt"
    /\ old' = points
    /\ index' = i
    /\ argPt' = <<pt>>
    /\ IF InsertOutOfRange(i, Len(points))
         THEN /\ fault' = PanicRange
              /\ points' = points
         ELSE /\ Len(points) < MaxLen
              /\ fault' = NoFault
              /\ IF i = Len(points)
                   THEN points' = Append(points, pt)
                   ELSE points' = InsertShift(points, i, pt)
    /\ NoRets /\ NoReduce /\ NoCodec

RemoveOutOfRange(i, n) == i >= n \/ i < 0

RemoveAt(i) ==
    /\ fault = NoFault
    /\ op' = "RemoveAt"
    /\ old' = points
    /\ index' = i
    /\ argPt' = <<>>
    /\ IF RemoveOutOfRange(i, Len(points))
         THEN /\ fault' = PanicRange
              /\ points' = points
         ELSE /\ fault' = NoFault
              /\ points' = SubSeq(points, 1, i) \o SubSeq(points, i + 2, Len(points))
    /\ NoRets /\ NoReduce /\ NoCodec

\* NewBound(a, b, c, d): a and b are the X extent, c and d the Y extent,
\* in either order (TestBoundNew: NewBound(5, 0, 3, 0) has sw (0, 0) and
\* ne (5, 3); NewBound(1, 2, 3, 4) has sw (1, 3) and ne (2, 4)).
NewBound(a, b, c, d) ==
    << <<Min2(a, b), Min2(c, d)>>, <<Max2(a, b), Max2(c, d)>> >>

RECURSIVE MinOver(_, _, _)
MinOver(pts, i, m) ==
    IF i > Len(pts) THEN m ELSE MinOver(pts, i + 1, Min2(m, pts[i]))

RECURSIVE MaxOver(_, _, _)
MaxOver(pts, i, m) ==
    IF i > Len(pts) THEN m ELSE MaxOver(pts, i + 1, Max2(m, pts[i]))

\* The running minimum / maximum starts at +Inf / -Inf, which the first
\* point replaces: the fold starts from the first point's coordinate.
MinCoord(pts, c) == MinOver([k \in 1..Len(pts) |-> pts[k][c]], 2, pts[1][c])
MaxCoord(pts, c) == MaxOver([k \in 1..Len(pts) |-> pts[k][c]], 2, pts[1][c])

Bounds(pts) ==
    IF Len(pts) = 0
      THEN NewBound(0, 0, 0, 0)
      ELSE LET minX == MinCoord(pts, 1)
               minY == MinCoord(pts, 2)
               maxX == MaxCoord(pts, 1)
               maxY == MaxCoord(pts, 2)
           IN  NewBound(maxY, minY, maxX, minX)

BoundsOp ==
    /\ fault = NoFault
    /\ op' = "Bounds"
    /\ old' = points
    /\ NoArgs
    /\ points' = points
    /\ retPt' = <<>>
    /\ retBound' = Bounds(points)
    /\ fault' = NoFault
    /\ NoReduce /\ NoCodec

NextPath ==
    \/ \E ptr \in {<<>>} \cup {<<pt>> : pt \in PathPoints} \cup {retPt} : Push(ptr)
    \/ Pop
    \/ \E i \in -1..(Len(points) + 1) : GetAt(i)
    \/ \E i \in -1..(Len(points) + 1), pt \in PathPoints : SetAt(i, pt)
    \/ \E i \in -1..(Len(points) + 1), pt \in PathPoints : InsertAt(i, pt)
    \/ \E i \in -1..(Len(points) + 1) : RemoveAt(i)
    \/ BoundsOp

SpecPath == InitPath /\ [][NextPath]_vars

----------------------------------------------------------------------------
(* Line: the point-to-segment distance (the Line type is not part of the  *)
(* sources at hand; this is its contract).  A distance is kept as its     *)
(* square, the fraction <<n, d>> with d > 0: the code compares distances, *)
(* and x > y iff x^2 > y^2 for x, y >= 0.                                 *)

Line(a, b) == <<a, b>>

SqDist(p, q) == (p[1] - q[1]) * (p[1] - q[1]) + (p[2] - q[2]) * (p[2] - q[2])

\* The distance from pt to the segment l, clamped to the segment's ends
\* when the projection of pt falls outside it.
LineDistanceFrom(l, pt) ==
    LET a == l[1]
        b == l[2]
        dx == b[1] - a[1]
        dy == b[2] - a[2]
        len2 == dx * dx + dy * dy
        dot == (pt[1] - a[1]) * dx + (pt[2] - a[2]) * dy
        cross == (pt[1] - a[1]) * dy - (pt[2] - a[2]) * dx
    IN  IF len2 = 0 THEN <<SqDist(pt, a), 1>>
        ELSE IF dot <= 0 THEN <<SqDist(pt, a), 1>>
        ELSE IF dot >= len2 THEN <<SqDist(pt, b), 1>>
        ELSE <<cross * cross, len2>>

\* dist > maxDist
DistGreater(d1, d2) == d1[1] * d2[2] > d2[1] * d1[2]

\* maxDist > threshold, the threshold t a real number of either sign
ExceedsThreshold(d, t) == t < 0 \/ d[1] > t * t * d[2]

----------------------------------------------------------------------------
(* Reduce: Douglas-Peucker *)

\* The deepest chain of workerReduce calls the model follows.  A call on
\* (start, end) recurses only on ranges inside it, so a chain that ends is
\* no deeper than the path is long: a deeper one never ends, and the Go
\* runtime stops it with a stack overflow.
StackLimit(pts) == Len(pts) + 2

\* for i := start + 1; i < end - 1; i++: the last interior point is missed
RECURSIVE FarthestScanShort(_, _, _, _, _, _)
FarthestScanShort(pts, l, i, end, maxDist, maxIndex) ==
    IF i >= end - 1 THEN [maxDist |-> maxDist, maxIndex |-> maxIndex]
    ELSE LET dist == LineDistanceFrom(l, pts[i + 1])
         IN  IF DistGreater(dist, maxDist)
               THEN FarthestScanShort(pts, l, i + 1, end, dist, i)
               ELSE FarthestScanShort(pts, l, i + 1, end, maxDist, maxIndex)

\* for i := start + 1; i < end; i++ { if dist > maxDist { ... } }
RECURSIVE FarthestScan(_, _, _, _, _, _)
FarthestScan(pts, l, i, end, maxDist, maxIndex) ==
    IF i >= end THEN [maxDist |-> maxDist, maxIndex |-> maxIndex]
    ELSE LET dist == LineDistanceFrom(l, pts[i + 1])
         IN  IF DistGreater(dist, maxDist)
               THEN FarthestScan(pts, l, i + 1, end, dist, i)
               ELSE FarthestScan(pts, l, i + 1, end, maxDist, maxIndex)

InRange(i, n) == 0 <= i /\ i < n

\* Returns the mask and the fault that ended the call, if any.
RECURSIVE workerReduce(_, _, _, _, _, _)
workerReduce(pts, start, end, t, m, depth) ==
    IF depth > StackLimit(pts)
      THEN [mask |-> m, fault |-> StackOverflow]
    ELSE IF ~InRange(start, Len(m)) \/ ~InRange(end, Len(m))
      THEN [mask |-> m, fault |-> RuntimeRange]
    ELSE
      LET m1 == [[m EXCEPT ![start + 1] = 1] EXCEPT ![end + 1] = 1]
          l == Line(pts[start + 1], pts[end + 1])
          far == FarthestScan(pts, l, start + 1, end, <<0, 1>>, 0)
      IN  IF ExceedsThreshold(far.maxDist, t)
            THEN LET r == workerReduce(pts, start, far.maxIndex, t, m1, depth + 1)
                 IN  IF r.fault # NoFault
                       THEN r
                       ELSE workerReduce(pts, far.maxIndex, end, t, r.mask, depth + 1)
            ELSE [mask |-> m1, fault |-> NoFault]

\* for i, v := range mask { if v == 1 { p.points[count] = p.points[i]; count++ } }
\* p.points = p.points[:count]
RECURSIVE Compact(_, _, _, _)
Compact(pts, m, i, count) ==
    IF i >= Len(m) THEN SubSeq(pts, 1, count)
    ELSE IF m[i + 1] = 1
      THEN Compact([pts EXCEPT ![count + 1] = pts[i + 1]], m, i + 1, count + 1)
      ELSE Compact(pts, m, i + 1, count)

Reduce(t) ==
    /\ fault = NoFault
    /\ op' = "Reduce"
    /\ old' = points
    /\ NoArgs
    /\ NoRets
    /\ threshold' = t
    /\ LET m0 == [k \in 1..Length(points) |-> 0]
           r == workerReduce(points, 0, Length(points) - 1, t, m0, 1)
       IN  /\ mask' = r.mask
           /\ fault' = r.fault
           /\ IF r.fault # NoFault
                THEN points' = points
                ELSE points' = Compact(points, r.mask, 0, 0)
    /\ NoCodec

InitReduce ==
    /\ points \in SeqsUpTo(ReducePoints, MaxReduceLen)
    /\ old = <<>>
    /\ op = "NewPath"
    /\ index = 0
    /\ argPt = <<>>
    /\ retPt = <<>>
    /\ retBound = <<>>
    /\ threshold = 0
    /\ mask = <<>>
    /\ str = <<>>
    /\ factor = 1
    /\ decoded = <<>>
    /\ fault = NoFault

NextReduce == \E t \in Thresholds : Reduce(t)

SpecReduce == InitReduce /\ [][NextReduce]_vars

----------------------------------------------------------------------------
(* Polyline codec.  A string is the sequence of its bytes. *)

ContinuationBit == 32
GroupMask == 31
CharOffset == 63

\* int(x) of a float64 x = a / b (b > 0): the fraction is dropped, towards 0.
TruncDiv(a, b) == IF a >= 0 THEN a \div b ELSE -((-a) \div b)

\* int(p.Lat() * f), for the coordinate c / Denom
Quantize(c, f) == TruncDiv(c * f, Denom)

\* The fixed-point integers of every point, <<lat5, lng5>>
Quantized(pts, f) ==
    [k \in 1..Len(pts) |-> <<Quantize(Lat(pts[k]), f), Quantize(Lng(pts[k]), f)>>]

\* num >= 0.  0x20 | (num & 0x1f) sets a bit that num & 0x1f leaves clear.
RECURSIVE encodeNumber(_)
encodeNumber(num) ==
    IF num >= ContinuationBit
      THEN <<(ContinuationBit + (num % (GroupMask + 1))) + CharOffset>>
             \o encodeNumber(num \div (GroupMask + 1))
      ELSE <<num + CharOffset>>

\* the complement of a negative number's shift is left out
encodeSignedNumberPlain(num) == encodeNumber(IF num < 0 THEN -(num * 2) ELSE num * 2)

\* num << 1 is 2 * num; ^x is -x - 1
encodeSignedNumber(num) ==
    LET shiftedNum == num * 2
    IN  encodeNumber(IF num < 0 THEN -shiftedNum - 1 ELSE shiftedNum)

\* The loop of Encode over the fixed-point integers, from the k-th on.
RECURSIVE EncodeDeltas(_, _, _, _)
EncodeDeltas(q, k, pLat, pLng) ==
    IF k > Len(q) THEN <<>>
    ELSE LET lat5 == q[k][1]
             lng5 == q[k][2]
         IN  encodeSignedNumber(lat5 - pLat) \o encodeSignedNumber(lng5 - pLng)
               \o EncodeDeltas(q, k + 1, lat5, lng5)

EncodePath(pts, f) == EncodeDeltas(Quantized(pts, f), 1, 0, 0)

Encode(f) ==
    /\ fault = NoFault
    /\ op' = "Encode"
    /\ old' = points
    /\ points' = points
    /\ NoArgs /\ NoRets /\ NoReduce
    /\ str' = EncodePath(points, f)
    /\ factor' = f
    /\ decoded' = <<>>
    /\ fault' = NoFault

RECURSIVE Pow2(_)
Pow2(n) == IF n = 0 THEN 1 ELSE 2 * Pow2(n - 1)

\* (b & 0x1f) << shift, for b of either sign
GroupBits(b, shift) == (b % (GroupMask + 1)) * Pow2(shift)

\* for b >= 0x20 { b = int(encoded[index]) - 63; index++;
\*                 result |= (b & 0x1f) << shift; shift += 5 }
\* The groups cover disjoint bits, so | adds.  encoded[index] past the end
\* of the string is a runtime panic.
RECURSIVE ReadNumber(_, _, _, _)
ReadNumber(encoded, idx, result, shift) ==
    IF idx >= Len(encoded)
      THEN [result |-> result, index |-> idx, fault |-> RuntimeRange]
      ELSE LET b == encoded[idx + 1] - CharOffset
               r == result + GroupBits(b, shift)
           IN  IF b >= ContinuationBit
                 THEN ReadNumber(encoded, idx + 1, r, shift + 5)
                 ELSE [result |-> r, index |-> idx + 1, fault |-> NoFault]

\* if result&1 != 0 { result = ^(result >> 1) } else { result = result >> 1 }
SignDetect(result) ==
    IF result % 2 # 0 THEN -(result \div 2) - 1 ELSE result \div 2

\* &Point{float64(lng) / f, float64(lat) / f}
DecodedPoint(lat, lng, f) == <<(lng * Denom) \div f, (lat * Denom) \div f>>

\* The loop of Decode from byte idx on: count fields read so far, lat and
\* lng the running sums tempLatLng, pts the points pushed.
RECURSIVE DecodeFrom(_, _, _, _, _, _, _)
DecodeFrom(encoded, idx, count, lat, lng, pts, f) ==
    IF idx >= Len(encoded)
      THEN [points |-> pts, fault |-> NoFault]
      ELSE LET n == ReadNumber(encoded, idx, 0, 0)
               delta == SignDetect(n.result)
           IN  IF n.fault # NoFault
                 THEN [points |-> <<>>, fault |-> n.fault]
               ELSE IF count % 2 = 0
                 THEN DecodeFrom(encoded, n.index, count + 1, delta + lat, lng, pts, f)
                 ELSE DecodeFrom(encoded, n.index, count + 1, lat, delta + lng,
                                 Append(pts, DecodedPoint(lat, delta + lng, f)), f)

DecodeString(encoded, f) == DecodeFrom(encoded, 0, 0, 0, 0, <<>>, f)

Decode(encoded, f) ==
    /\ fault = NoFault
    /\ op' = "Decode"
    /\ old' = points
    /\ points' = points
    /\ NoArgs /\ NoRets /\ NoReduce
    /\ str' = encoded
    /\ factor' = f
    /\ LET r == DecodeString(encoded, f)
       IN  /\ decoded' = r.points
           /\ fault' = r.fault

InitCodec ==
    /\ points \in SeqsUpTo(CodecPoints, MaxCodecLen)
    /\ old = <<>>
    /\ op = "NewPath"
    /\ index = 0
    /\ argPt = <<>>
    /\ retPt = <<>>
    /\ retBound = <<>>
    /\ threshold = 0
    /\ mask = <<>>
    /\ str = <<>>
    /\ factor = 1
    /\ decoded = <<>>
    /\ fault = NoFault

\* Decode is given the string the last Encode returned, with its factor,
\* or any string.
NextCodec ==
    \/ \E f \in Factors : Encode(f)
    \/ op = "Encode" /\ Decode(str, factor)
    \/ \E s \in SeqsUpTo(Alphabet, MaxStrLen), f \in Factors : Decode(s, f)

SpecCodec == InitCodec /\ [][NextCodec]_vars

----------------------------------------------------------------------------
(* Properties *)

MinOf(S) == CHOOSE m \in S : \A x \in S : m <= x
MaxOf(S) == CHOOSE m \in S : \A x \in S : m >= x

\* The original indices Reduce kept, and the k-th of them
Kept(m) == {i \in 0..(Len(m) - 1) : m[i + 1] = 1}
KeptAt(m, k) == CHOOSE i \in Kept(m) : Cardinality({j \in Kept(m) : j < i}) = k - 1

\* C1: decoding the string Encode returned, with the same factor, gives a
\* path of the same length whose k-th point is exactly the pair of integers
\* <<lat5, lng5>> Encode quantized the k-th point to, each over the factor:
\* the zig-zag and 5-bit-group encoding of every delta, of either sign, is
\* inverted exactly.
C1_RoundTrip ==
    (op = "Decode" /\ str = EncodePath(points, factor)) =>
        /\ fault = NoFault
        /\ Len(decoded) = Len(points)
        /\ \A k \in 1..Len(points) :
              /\ Lat(decoded[k]) * factor = Quantized(points, factor)[k][1] * Denom
              /\ Lng(decoded[k]) * factor = Quantized(points, factor)[k][2] * Denom

\* A round trip of two points whose second latitude delta is negative and
\* whose string holds a group with the continuation bit.
C1_Witness ==
    /\ op = "Decode"
    /\ fault = NoFault
    /\ str = EncodePath(points, factor)
    /\ Len(points) = 2
    /\ Len(decoded) = 2
    /\ Quantized(points, factor)[2][1] < Quantized(points, factor)[1][1]
    /\ \E k \in 1..Len(str) : str[k] >= ContinuationBit + CharOffset

\* C2: when Reduce returns, the result is the points the mask kept, in
\* order, and between two consecutive kept points (original indices a < b)
\* no original point is farther than the threshold from the segment
\* (old[a], old[b]).
C2_ReduceFaithful ==
    (op = "Reduce" /\ fault = NoFault /\ Len(old) >= 2) =>
        /\ Len(mask) = Len(old)
        /\ Len(points) = Cardinality(Kept(mask))
        /\ \A k \in 1..Len(points) : points[k] = old[KeptAt(mask, k) + 1]
        /\ \A a \in Kept(mask), b \in Kept(mask) :
              (a < b /\ \A j \in (a + 1)..(b - 1) : j \notin Kept(mask)) =>
                 \A i \in (a + 1)..(b - 1) :
                    ~ExceedsThreshold(
                        LineDistanceFrom(Line(old[a + 1], old[b + 1]), old[i + 1]),
                        threshold)

\* Reduce returned from a path of four points having kept one interior
\* point (a split) and dropped the other.
C2_Witness ==
    /\ op = "Reduce"
    /\ fault = NoFault
    /\ threshold = 1
    /\ Len(old) = 4
    /\ Len(points) = 3

Malformed(s) ==
    \/ Cardinality({k \in 1..Len(s) : s[k] - CharOffset < ContinuationBit}) % 2 = 1
    \/ Len(s) > 0 /\ s[Len(s)] - CharOffset >= ContinuationBit

\* C3: Decode signals a failure for every malformed string: one that ends
\* after an odd number of fields, or whose last byte has the continuation
\* bit set.
C3_DecodeRejectsMalformed ==
    (op = "Decode" /\ Malformed(str)) => fault # NoFault

\* C4: Bounds of a non-empty path has the south-west corner (min X, min Y)
\* and the north-east corner (max X, max Y).
C4_BoundsCorners ==
    (op = "Bounds" /\ Len(old) > 0) =>
        LET xs == {X(old[k]) : k \in 1..Len(old)}
            ys == {Y(old[k]) : k \in 1..Len(old)}
        IN  retBound = << <<MinOf(xs), MinOf(ys)>>, <<MaxOf(xs), MaxOf(ys)>> >>

\* C5: GetAt(i) returns nil without a fault for every i outside
\* [0, Length()), negative i included, returns the point at i for i inside,
\* and leaves the path as it was.
C5_GetAtTotal ==
    (op = "GetAt") =>
        /\ fault = NoFault
        /\ points = old
        /\ retPt = IF InRange(index, Len(old)) THEN <<old[index + 1]>> ELSE <<>>

\* C6: Pop followed at once by Push of the pointer Pop returned ends
\* without a fault and leaves the path as it was before the Pop, the empty
\* path included.
C6_PopPushRestores ==
    [][(op = "Pop" /\ op' = "Push" /\ argPt' = retPt) =>
          (fault' = NoFault /\ points' = old)]_vars

\* C7 as stated: InsertAt at index = Length() raises the out-of-range fault
\* and leaves the path unchanged, as RemoveAt does for every index >=
\* Length().
C7_InsertAtLengthFaults ==
    /\ (op = "InsertAt" /\ index = Len(old)) => (fault = PanicRange /\ points = old)
    /\ (op = "RemoveAt" /\ index >= Len(old)) => (fault = PanicRange /\ points = old)

\* C7 as amended: InsertAt raises the out-of-range fault and leaves the path
\* unchanged for every index > Length(); at index = Length() it appends the
\* point without a fault.  RemoveAt raises the fault and leaves the path
\* unchanged for every index >= Length().
C7_InsertRemoveRange ==
    /\ (op = "InsertAt" /\ index > Len(old)) => (fault = PanicRange /\ points = old)
    /\ (op = "InsertAt" /\ index = Len(old)) =>
          (fault = NoFault /\ points = Append(old, argPt[1]))
    /\ (op = "RemoveAt" /\ index >= Len(old)) => (fault = PanicRange /\ points = old)

\* InsertAt past the end of a path of two points has raised the fault.
C7_Witness ==
    /\ op = "InsertAt"
    /\ Len(old) = 2
    /\ index = Len(old) + 1
    /\ fault = PanicRange

\* C8: Reduce on a path of length 0 or 1 ends without a fault and leaves
\* the points as they were.
C8_ReduceShortPath ==
    (op = "Reduce" /\ Len(old) <= 1) => (fault = NoFault /\ points = old)

\* The nearest integer to a / b (b > 0), halves away from 0.
RoundDiv(a, b) == IF a >= 0 THEN (2 * a + b) \div (2 * b)
                            ELSE -((2 * (-a) + b) \div (2 * b))

\* The integers <<lat5, lng5>> of every point, rounded to the nearest
RoundedQuantized(pts, f) ==
    [k \in 1..Len(pts) |->
        <<RoundDiv(Lat(pts[k]) * f, Denom), RoundDiv(Lng(pts[k]) * f, Denom)>>]

\* C9: the integers whose deltas Encode emits are round(lat * factor) and
\* round(lng * factor), to the nearest integer, for coordinates of either
\* sign.
C9_EncodeRounds ==
    (op = "Encode") => str = EncodeDeltas(RoundedQuantized(points, factor), 1, 0, 0)

\* C10: Reduce ends for every path of length >= 1 and every threshold,
\* negative ones included, and the first and last points of the path are
\* the first and last points of the result.
C10_ReduceTerminates ==
    (op = "Reduce" /\ Len(old) >= 1) =>
        /\ fault = NoFault
        /\ Len(points) >= 1
        /\ points[1] = old[1]
        /\ points[Len(points)] = old[Len(old)]

=============================================================================
